---- MODULE Spec2Model ----
(***************************************************************************)
(* Download pipeline of DICOMwebBrowserWidget (DICOMwebBrowser.py).        *)
(*                                                                         *)
(* The widget runs on the single GUI thread.  A button click runs its      *)
(* handler to the end, except that slicer.app.processEvents() (called      *)
(* directly and through showStatus) dispatches the clicks that are pending *)
(* at that moment, so a handler can start while another one is suspended   *)
(* inside the event pump.  `stack` holds the suspended activations of      *)
(* addSelectedToDownloadQueue (downloadSelectedSeries inlined), the last   *)
(* element being the running one; a handler can be dispatched when the     *)
(* stack is empty (application event loop) or when the running activation  *)
(* is inside processEvents.                                                *)
(*                                                                         *)
(* Events modelled: selection in the series table, Index, Load, Cancel,    *)
(* the cache check box, Connect and the selection of one or more studies   *)
(* in the studies table.  connectToServer and studiesTableSelectionChanged *)
(* run as one step each: the events their showStatus calls (lines 533,     *)
(* 621) pump are taken as delivered before the handler.  The context menu  *)
(* actions are not dispatched.                                             *)
(*                                                                         *)
(* Spec is the widget with a study listed and selected, downloading from a *)
(* well behaved server.  ListingSpec is the widget right after             *)
(* construction, listing studies and series from servers of every kind     *)
(* with every content of the response cache; nothing is downloaded in it.  *)
(* EnqueueSpec is the widget with two studies listed, up to the point      *)
(* where a click on Index or Load has queued its jobs.                     *)
(***************************************************************************)
EXTENDS Integers, Sequences, FiniteSets, TLC

\* ----------------------------------------------------------------- bounds
NumSeries == 2        \* series listed in the series table
NumInstances == 2     \* instances the server lists for each series
MaxJobs == 2          \* jobs ever appended to downloadQueue
MaxDepth == 2         \* nested activations of addSelectedToDownloadQueue
MaxFaults == 1        \* failing server requests / failing imports in a run
NumStudies == 3       \* study records a server can hold
PageLimit == 2        \* records in one page of search_for_studies
MaxPages == 2         \* non-empty pages a scripted server answers with
MaxListings == 1      \* study/series listings in a behaviour of Spec
ListingCalls == 3     \* study/series listings in a behaviour of ListingSpec
MaxSelectedStudies == 2  \* rows selected together in the studies table

\* ------------------------------------------------------------ environment
\* Response of DICOMwebClient.search_for_instances for a series: the SOP
\* instance UIDs ('00080018') in server order.
ServerInstances(series) == [k \in 1..NumInstances |-> <<series, k>>]

\* hashlib.md5(x.encode()).hexdigest(): a digest, not the UID itself; equal
\* inputs give equal digests and the modelled UIDs do not collide.
Md5(x) == <<"md5", x>>

\* Line 739: downloadFolderPath = storagePath/md5(seriesInstanceUID)/
DownloadFolderPath(seriesInstanceUID) == <<"DICOMwebLocal", Md5(seriesInstanceUID)>>

\* Line 839: fileName = downloadFolderPath + md5(sopInstanceUid) + '.dcm'
FileName(downloadFolderPath, sopInstanceUid) ==
  [folder |-> downloadFolderPath, name |-> <<Md5(sopInstanceUid), ".dcm">>]

\* Local databases the widget can be started with.
InitialDatabases == { {}, {<<1, 2>>} }

\* ----------------------------------------------------- listing environment
SeqsUpTo(S, n) == UNION {[1..k -> S] : k \in 0..n}

DistinctSeqsUpTo(S, n) ==
  {q \in SeqsUpTo(S, n) : \A i, k \in 1..Len(q) : i # k => q[i] # q[k]}

Min(a, b) == IF a <= b THEN a ELSE b

\* self.serverUrl (line 529).
ServerUrl == "http://server/dicomweb"

\* A record of a search_for_studies response: DICOM JSON with the study
\* instance UID under tag 0020000D.
StudyRecord(uid) == <<"0020000D", uid>>

\* A record of a search_for_series response (SeriesInstanceUID, 0020000E).
SeriesRecord(uid) == <<"0020000E", uid>>

\* setTableCellTextFromDICOM (lines 894-912): the text of the UID cell.
UidText(record) == record[2]

StudyRecords == {StudyRecord(u) : u \in 1..NumStudies}

\* The series of a study as the server lists them: none, or NumSeries.
AllSeries == [r \in 1..NumSeries |-> SeriesRecord(r)]
SeriesResponses == {<<>>, AllSeries}

\* Servers that honour offset: the studies they hold, each once, served in
\* pages of at most `limit` records starting at the offset asked for.
OffsetServers ==
  {[kind |-> "offset", studies |-> q, limit |-> l, pages |-> <<>>,
    series |-> se] :
     q \in DistinctSeqsUpTo(StudyRecords, NumStudies), l \in 1..PageLimit,
     se \in SeriesResponses}

\* Servers that ignore offset: the same page on every request.
FixedServers ==
  {[kind |-> "fixed", studies |-> q, limit |-> PageLimit, pages |-> <<>>,
    series |-> se] :
     q \in SeqsUpTo(StudyRecords, PageLimit) \ {<<>>}, se \in SeriesResponses}

\* Any other server: the n-th request is answered with the n-th page of a
\* list of non-empty pages, and with an empty page after the last one.
ScriptedServers ==
  {[kind |-> "script", studies |-> <<>>, limit |-> PageLimit, pages |-> ps,
    series |-> se] :
     ps \in SeqsUpTo(SeqsUpTo(StudyRecords, PageLimit) \ {<<>>}, MaxPages),
     se \in SeriesResponses}

\* Servers that never answer with an empty page: the n-th request is
\* answered with the next page of a list of non-empty pages, taken round
\* and round.
CyclicServers ==
  {[kind |-> "cycle", studies |-> <<>>, limit |-> PageLimit, pages |-> ps,
    series |-> se] :
     ps \in SeqsUpTo(SeqsUpTo(StudyRecords, PageLimit) \ {<<>>}, MaxPages)
             \ {<<>>},
     se \in SeriesResponses}

\* DICOMwebClient.search_for_studies(offset=offset), the n-th request of a
\* listing (line 582).
SearchForStudies(srv, offset, n) ==
  CASE srv.kind = "offset" ->
         SubSeq(srv.studies, offset + 1,
                Min(offset + srv.limit, Len(srv.studies)))
    [] srv.kind = "fixed" -> srv.studies
    [] srv.kind = "script" ->
         IF n <= Len(srv.pages) THEN srv.pages[n] ELSE <<>>
    [] srv.kind = "cycle" -> srv.pages[((n - 1) % Len(srv.pages)) + 1]

\* DICOMwebClient.search_for_series(study) (line 636): the series of the
\* study; a series UID belongs to one study.
SearchForSeries(srv, studyInstanceUID) ==
  [i \in 1..Len(srv.series) |->
     SeriesRecord((studyInstanceUID - 1) * NumSeries + UidText(srv.series[i]))]

\* json.dump / json.load of a list of DICOM JSON records (lines 565, 594,
\* 624, 639): the file holds the serialised text, loading parses it back.
JsonDump(list) == <<"json", list>>
JsonLoad(text) == text[2]

\* os.path.isfile(cacheFile) is False.
Absent == <<"absent">>

\* Line 531: cachePath + md5(serverUrl) + '.json'
StudiesCacheFile(serverUrl) == <<"ServerResponseCache", Md5(serverUrl), ".json">>

\* Line 619: cachePath + studyInstanceUID + '.json'
SeriesCacheFile(studyInstanceUID) ==
  <<"ServerResponseCache", <<"uid", studyInstanceUID>>, ".json">>

CacheFileNames ==
  {StudiesCacheFile(ServerUrl)} \cup {SeriesCacheFile(u) : u \in 1..NumStudies}

VARIABLES
  downloadQueue,               \* self.downloadQueue: ids of the queued jobs
  cancelDownloadRequested,     \* self.cancelDownloadRequested
  useCacheFlag,                \* self.useCacheFlag
  selectedStudyInstanceUID,    \* self.selectedStudyInstanceUID
  seriesInstanceUIDWidgets,    \* self.seriesInstanceUIDWidgets: the UID items
                               \* of the series table, by the UID they show
  tableRowCount,               \* seriesTableWidget.rowCount
  selected,                    \* rows selected in the series table
  loadButtonEnabled,           \* loadButton.enabled and indexButton.enabled
  cancelDownloadButtonEnabled, \* cancelDownloadButton.enabled
  cellWidget,                  \* 'Status' cell widget of each row: bar id, 0 = None
  dirs,                        \* staging directories that exist
  files,                       \* files on disk: [folder, name, sop]
  database,                    \* SOP instance UIDs in slicer.dicomDatabase
  scene,                       \* series loaded into the scene, in load order
  stack,                       \* activations of addSelectedToDownloadQueue
  jobs,                        \* every job ever queued, with its history
  faults,                      \* failures injected so far
  studyInstanceUIDWidgets,     \* study UID shown in each studies table row
  seriesItemStudyInstanceUID,  \* study UID stored in the item of each series
                               \* row (seriesItemStudyInstanceUIDRole, line 959)
  studiesTableEnabled,         \* studiesTableWidget.enabled
  cacheFiles,                  \* content of each file of the response cache
  server,                      \* the DICOMweb server behind self.DICOMwebClient
  lastListing,                 \* history of the last study/series listing
  listingsLeft                 \* listings that can still be issued

vars == <<downloadQueue, cancelDownloadRequested, useCacheFlag,
          selectedStudyInstanceUID, seriesInstanceUIDWidgets, tableRowCount,
          selected, loadButtonEnabled, cancelDownloadButtonEnabled, cellWidget, dirs,
          files, database, scene, stack, jobs, faults,
          studyInstanceUIDWidgets, seriesItemStudyInstanceUID,
          studiesTableEnabled, cacheFiles, server, lastListing, listingsLeft>>

uiVars == <<useCacheFlag, selectedStudyInstanceUID, seriesInstanceUIDWidgets,
            tableRowCount,
            selected, loadButtonEnabled>>
diskVars == <<dirs, files, database>>
listingVars == <<studyInstanceUIDWidgets, seriesItemStudyInstanceUID,
                 cacheFiles, server, lastListing, listingsLeft>>

\* --------------------------------------------------------------- helpers
\* The rows of the series table.  QTableWidget.clear() removes the items
\* and the cell widgets and keeps the rows (lines 999, 950).
Rows == 1..tableRowCount

\* The rows that show a series: table.item(row, 'Series Instance UID') is
\* the widget of the row; it is None for the other rows.
WidgetRows == 1..Len(seriesInstanceUIDWidgets)

\* pcs at which the running activation is inside slicer.app.processEvents()
PumpPcs == {"pump799", "pump810", "pump832", "pump860", "pump758"}

\* pcs of an activation that is inside downloadSelectedSeries
DrainPcs == {"while", "pump799", "pump810", "loop", "pump832", "post", "pump860"}

Top == stack[Len(stack)]

\* A click can be delivered by the application event loop or by the event
\* pump the running handler is in (showStatus, lines 484-487).
CanDispatch == IF stack = <<>> THEN TRUE ELSE Top.pc \in PumpPcs

Running(pc) == stack # <<>> /\ Top.pc = pc

SetTop(f) == [stack EXCEPT ![Len(stack)] = f]

Pop == SubSeq(stack, 1, Len(stack) - 1)

ActiveJobs == {j \in 1..Len(jobs) : jobs[j].status = "active"}

FilesIn(fs, folder) == {f \in fs : f.folder = folder}

\* slicer.dicomDatabase.instancesForSeries(series)
InstancesForSeries(db, series) == {u \in db : u[1] = series}

\* getSeriesRowNumber (lines 771-778): first row showing the series, or -1.
GetSeriesRowNumber(seriesInstanceUID) ==
  LET rows == {r \in WidgetRows :
                 seriesInstanceUIDWidgets[r] = seriesInstanceUID}
  IN IF rows = {} THEN -1 ELSE CHOOSE r \in rows : \A q \in rows : r <= q

\* getSeriesRowNumber raises (line 775, None has no text) when it comes to a
\* row without item before it finds the series.
RowLookupRaises(seriesInstanceUID) ==
  /\ GetSeriesRowNumber(seriesInstanceUID) < 0
  /\ tableRowCount > Len(seriesInstanceUIDWidgets)

\* getSeriesDownloadProgressBar (lines 780-784): the cell widget, 0 for None.
GetSeriesDownloadProgressBar(cells, seriesInstanceUID) ==
  LET rowIndex == GetSeriesRowNumber(seriesInstanceUID)
  IN IF rowIndex < 0 THEN 0 ELSE cells[rowIndex]

\* removeDownloadProgressBar (lines 887-892): the cell widgets afterwards.
RemoveDownloadProgressBar(cells, seriesInstanceUID) ==
  LET rowIndex == GetSeriesRowNumber(seriesInstanceUID)
  IN IF rowIndex < 0 THEN cells ELSE [cells EXCEPT ![rowIndex] = 0]

\* QProgressBar() as constructed at line 736 (Qt defaults).
NewProgressBar == [minimum |-> 0, maximum |-> 100, value |-> -1]

\* Variant of SetMaximum: the call of line 818 left out.
SetMaximum_Ignored(bar, maximum) == bar

\* QProgressBar.setMaximum: setRange(minimum, maximum); a value left outside
\* the new range is reset.
SetMaximum(bar, maximum) ==
  LET mx == IF maximum < bar.minimum THEN bar.minimum ELSE maximum
      v  == IF bar.value < bar.minimum - 1 \/ bar.value > mx
              THEN bar.minimum - 1 ELSE bar.value
  IN [bar EXCEPT !.maximum = mx, !.value = v]

\* QProgressBar.setValue: ignored when out of range, unless the range is 0..0.
SetValue(bar, value) ==
  IF (value > bar.maximum \/ value < bar.minimum)
       /\ (bar.maximum # 0 \/ bar.minimum # 0)
    THEN bar
    ELSE [bar EXCEPT !.value = value]

\* A Python reference to a cell widget is truthy while the widget exists;
\* setCellWidget deletes the widget it replaces (lines 737, 892).
BarAlive(cells, barId) == barId # 0 /\ \E r \in Rows : cells[r] = barId

\* The dictionary appended at lines 740-741, with the history of the job.
NewJob(studyInstanceUID, seriesInstanceUID, listedUnder) ==
  [studyInstanceUID    |-> studyInstanceUID,
   listedUnder         |-> listedUnder, \* the study that listed the series
   seriesInstanceUID   |-> seriesInstanceUID,
   downloadFolderPath  |-> DownloadFolderPath(seriesInstanceUID),
   downloadProgressBar |-> NewProgressBar,
   status              |-> "queued",
   searched            |-> FALSE,   \* search_for_instances was issued
   alreadyInDatabase   |-> {},      \* instancesAlreadyInDatabase (line 825)
   processed           |-> 0,       \* instances the loop went through
   retrieved           |-> {},      \* retrieve_instance calls issued
   requests            |-> 0,       \* number of server requests issued
   retrieveFailed      |-> FALSE,   \* a retrieve_instance call raised
   staged              |-> {},      \* instances found staged, cache in use
   written             |-> {},      \* files written by this job
   overwritten         |-> {},      \* of these, the ones written over a file
                                    \* that was already in the folder
   cancelAt            |-> -1,      \* instances processed when cancel was
                                    \* requested; -1: none since the last enqueue
   writtenAtCancel     |-> {},      \* files written before that request
   afterCancel         |-> {},      \* retrieve_instance calls after it
   cancelClicked       |-> FALSE,   \* Cancel was clicked during the job
   observedCancel      |-> FALSE,   \* lines 828/855 read the flag as True
   serverFailed        |-> FALSE,   \* a server request raised
   raised              |-> FALSE,   \* the except branch (872) ran
   imported            |-> FALSE,   \* indexer.addDirectory was called
   importFailed        |-> FALSE]   \* the indexer reported a failure

\* No listing has been issued yet.
NoListing ==
  [op          |-> "none",
   cacheFile   |-> <<>>,     \* the cache file of the listing
   entryBefore |-> Absent,   \* its content when the handler was called
   useCache    |-> FALSE,    \* useCacheFlag when the handler was called
   requests    |-> <<>>,     \* search requests issued: offsets / study UIDs
   pages       |-> <<>>,     \* the responses received, in order
   populated   |-> FALSE,    \* populate...TableWidget was called
   shown       |-> <<>>,     \* the list it was called with
   error       |-> FALSE,    \* QMessageBox.critical was shown
   cutOff      |-> FALSE]    \* the paging loop was cut off at MaxRequests

\* Rows selected, in widget order (loop of line 724).
SelectedRows ==
  SelectSeq([r \in WidgetRows |-> r], LAMBDA r : r \in selected)

Init ==
  /\ downloadQueue = <<>>
  /\ cancelDownloadRequested = FALSE
  /\ useCacheFlag = TRUE
  /\ selectedStudyInstanceUID = 1
  /\ seriesInstanceUIDWidgets = [r \in 1..NumSeries |-> r]
  /\ tableRowCount = NumSeries
  /\ selected = {}
  /\ loadButtonEnabled = FALSE
  /\ cancelDownloadButtonEnabled = FALSE
  /\ cellWidget = [r \in 1..NumSeries |-> 0]
  /\ dirs = {}
  /\ files = {}
  /\ database \in InitialDatabases
  /\ scene = <<>>
  /\ stack = <<>>
  /\ jobs = <<>>
  /\ faults = 0
  /\ studyInstanceUIDWidgets = <<1>>
  /\ seriesItemStudyInstanceUID = [r \in 1..NumSeries |-> 1]
  /\ studiesTableEnabled = TRUE
  /\ cacheFiles = [f \in CacheFileNames |->
                     IF f = StudiesCacheFile(ServerUrl)
                       THEN JsonDump(<<StudyRecord(1)>>)
                     ELSE IF f = SeriesCacheFile(1) THEN JsonDump(AllSeries)
                     ELSE Absent]
  /\ server = [kind |-> "offset", studies |-> <<StudyRecord(1)>>,
               limit |-> PageLimit, pages |-> <<>>, series |-> AllSeries]
  /\ lastListing = NoListing
  /\ listingsLeft = MaxListings

\* ----------------------------------------------------------------- events

\* seriesSelected (lines 694-705), on itemSelectionChanged of the series table.
seriesSelected ==
  /\ CanDispatch
  /\ \E sel \in SUBSET WidgetRows :
       /\ sel # selected
       /\ selected' = sel
       /\ loadButtonEnabled' = (sel # {})
  /\ UNCHANGED <<listingVars, studiesTableEnabled>>
  /\ UNCHANGED <<downloadQueue, cancelDownloadRequested, useCacheFlag,
                 selectedStudyInstanceUID, seriesInstanceUIDWidgets,
                 tableRowCount,
                 cancelDownloadButtonEnabled, cellWidget, diskVars, scene,
                 stack, jobs, faults>>

\* onUseCacheStateChanged (lines 432-436).
onUseCacheStateChanged ==
  /\ CanDispatch
  /\ \E state \in {0, 2} :
       /\ useCacheFlag # (state = 2)
       /\ useCacheFlag' = (state = 2)
  /\ UNCHANGED <<listingVars, studiesTableEnabled>>
  /\ UNCHANGED <<downloadQueue, cancelDownloadRequested,
                 selectedStudyInstanceUID, seriesInstanceUIDWidgets,
                 tableRowCount, selected,
                 loadButtonEnabled, cancelDownloadButtonEnabled, cellWidget,
                 diskVars, scene, stack, jobs, faults>>

\* onCancelDownloadButton (lines 713-714).
onCancelDownloadButton ==
  /\ CanDispatch
  /\ cancelDownloadButtonEnabled
  /\ cancelDownloadRequested' = TRUE
  /\ jobs' = [j \in 1..Len(jobs) |->
               IF jobs[j].status # "active" THEN jobs[j]
               ELSE IF jobs[j].cancelAt >= 0
                 THEN [jobs[j] EXCEPT !.cancelClicked = TRUE]
                 ELSE [jobs[j] EXCEPT !.cancelClicked = TRUE,
                                      !.cancelAt = jobs[j].processed,
                                      !.writtenAtCancel = jobs[j].written,
                                      !.afterCancel = {}]]
  /\ UNCHANGED <<listingVars, studiesTableEnabled>>
  /\ UNCHANGED <<downloadQueue, uiVars, cancelDownloadButtonEnabled,
                 cellWidget, diskVars, scene, stack, faults>>

\* addSelectedToDownloadQueue, lines 716-748 and line 788: queue one job per
\* selected row, disable the studies table and enter downloadSelectedSeries.
addSelectedToDownloadQueue(loadToScene) ==
  LET rows    == SelectedRows
      first   == Len(jobs)
      uids    == [k \in 1..Len(rows) |-> seriesInstanceUIDWidgets[rows[k]]]
      newJobs == [k \in 1..Len(rows) |->
                    NewJob(selectedStudyInstanceUID, uids[k],
                           seriesItemStudyInstanceUID[rows[k]])]
      frame   == [pc |-> "while",
                  loadToScene |-> loadToScene,
                  allSelectedSeriesUIDs |-> uids,
                  seriesIndex |-> 0,
                  firstJob |-> first, \* the jobs queued here follow this one
                  loads |-> 0,        \* volumes this activation has loaded
                  queuedItem |-> 0,
                  drained |-> {},     \* jobs this activation has popped
                  instances |-> <<>>,
                  instanceIndex |-> 0,
                  instancesAlreadyInDatabase |-> {},
                  currentDownloadProgressBar |-> 0]
  IN
  /\ CanDispatch
  /\ loadButtonEnabled
  /\ Len(stack) < MaxDepth
  /\ Len(jobs) + Len(rows) <= MaxJobs
  /\ cancelDownloadRequested' = FALSE
  /\ downloadQueue' = downloadQueue \o [k \in 1..Len(rows) |-> first + k]
  /\ jobs' = [j \in 1..Len(jobs) |->
               IF jobs[j].status = "active"
                 THEN [jobs[j] EXCEPT !.cancelAt = -1] ELSE jobs[j]]
             \o newJobs
  /\ cellWidget' = [r \in Rows |->
                     IF r \in selected
                       THEN first + (CHOOSE k \in 1..Len(rows) : rows[k] = r)
                       ELSE cellWidget[r]]
  /\ selected' = {}
  /\ loadButtonEnabled' = IF selected = {} THEN loadButtonEnabled ELSE FALSE
  /\ cancelDownloadButtonEnabled' = TRUE
  /\ studiesTableEnabled' = FALSE
  /\ stack' = Append(stack, frame)
  /\ UNCHANGED listingVars
  /\ UNCHANGED <<useCacheFlag, selectedStudyInstanceUID,
                 seriesInstanceUIDWidgets, tableRowCount, diskVars, scene,
                 faults>>

\* onIndexButton (lines 707-708).
onIndexButton == addSelectedToDownloadQueue(FALSE)

\* onLoadButton (lines 710-711).
onLoadButton == addSelectedToDownloadQueue(TRUE)

\* ---------------------------------------------------------------- listings

\* Variant of CacheHit: the cache file is never read.
CacheHit_Never(isFile, useCache) == FALSE

\* Variant of CacheHit: the cache file is read whatever the check box says.
CacheHit_IgnoresFlag(isFile, useCache) == isFile

\* Lines 563 and 622: the cache file is read when it exists and the cache is
\* in use.
CacheHit(isFile, useCache) == isFile /\ useCache

\* Variant of UseCachedStudies: a cached list is used even when it is empty.
UseCachedStudies_EvenIfEmpty(hit, studiesList) == hit

\* Lines 563-569: the cached study list is used when the file was read and
\* the list in it is not empty.
UseCachedStudies(hit, studiesList) == hit /\ Len(studiesList) # 0

\* Lines 622-625: the cached series list is used whenever the file was read.
UseCachedSeries(hit, series) == hit

\* Variant of FirstRecordSeen: the test of line 585 left out.
FirstRecordSeen_Never(subset, studies) == FALSE

\* Variant of FirstRecordSeen: only the first record fetched is compared.
FirstRecordSeen_FirstOnly(subset, studies) ==
  studies # <<>> /\ subset[1] = studies[1]

\* Variant of FirstRecordSeen: only the record fetched last is compared.
FirstRecordSeen_LastOnly(subset, studies) ==
  studies # <<>> /\ subset[1] = studies[Len(studies)]

\* Line 585: subset[0] in studies.
FirstRecordSeen(subset, studies) ==
  \E i \in 1..Len(studies) : studies[i] = subset[1]

\* Lines 583-588: the two break conditions of the paging loop.
PageStops(subset, studies) ==
  IF Len(subset) = 0 THEN TRUE ELSE FirstRecordSeen(subset, studies)

\* Variant of NextOffset: the offset advances by one page, not by its length.
NextOffset_ByOne(offset, subset) == offset + 1

\* Line 590: offset += len(subset)
NextOffset(offset, subset) == offset + Len(subset)

\* Requests after which the evaluation of the paging loop is cut off; no
\* listing of the model gets there (ListingTypeOK).
MaxRequests == NumStudies + MaxPages + 3

\* Lines 578-590: the paging loop from the state (studies, offset), after
\* the requests `requests` were answered by `pages`.  The request number
\* failAt raises (0: none does).
RECURSIVE SearchAllStudies(_, _, _, _, _, _)
SearchAllStudies(srv, failAt, studies, offset, requests, pages) ==
  LET sent == Append(requests, offset)
      subset == SearchForStudies(srv, offset, Len(sent))
      received == Append(pages, subset)
  IN IF Len(requests) >= MaxRequests
       THEN [studies |-> studies, requests |-> requests, pages |-> pages,
             error |-> FALSE, cutOff |-> TRUE]
     ELSE IF Len(sent) = failAt
       THEN [studies |-> studies, requests |-> sent, pages |-> pages,
             error |-> TRUE, cutOff |-> FALSE]
     ELSE IF PageStops(subset, studies)
       THEN [studies |-> studies, requests |-> sent, pages |-> received,
             error |-> FALSE, cutOff |-> FALSE]
     ELSE SearchAllStudies(srv, failAt, studies \o subset,
                           NextOffset(offset, subset), sent, received)

\* Variant of SaveToCache: the list is written even when a request raised.
SaveToCache_Always(cache, cacheFile, list, error) ==
  [cache EXCEPT ![cacheFile] = JsonDump(list)]

\* Lines 592-594 and 637-639, inside the try block: the list is written to
\* the cache file unless a request raised before.
SaveToCache(cache, cacheFile, list, error) ==
  IF error THEN cache ELSE [cache EXCEPT ![cacheFile] = JsonDump(list)]

\* populateStudiesTableWidget / populateSeriesTableWidget (lines 914-981):
\* one row is appended for each record, showing its UID.
PopulateTableWidget(widgets, records) ==
  widgets \o [i \in 1..Len(records) |-> UidText(records[i])]

\* connectToServer (lines 520-612), the Connect button.  The studies and the
\* series table are cleared (the series table keeps its rows, without items
\* and cell widgets); the study list comes from the cache file or from the
\* paging loop; no row of the new studies table is selected.
connectToServer ==
  /\ CanDispatch
  /\ listingsLeft > 0
  /\ \E failAt \in 0..MaxRequests :
       LET cacheFile == StudiesCacheFile(ServerUrl)
           entry == cacheFiles[cacheFile]
           hit == CacheHit(entry # Absent, useCacheFlag)
           studiesList == IF hit THEN JsonLoad(entry) ELSE <<>>
           cached == UseCachedStudies(hit, studiesList)
       IN \E got \in {SearchAllStudies(server, failAt, <<>>, 0, <<>>, <<>>)} :
          LET error == IF cached THEN FALSE ELSE got.error
              shown == IF cached THEN studiesList ELSE got.studies
          IN
          /\ IF failAt = 0 THEN TRUE ELSE error /\ faults < MaxFaults
          /\ faults' = IF error THEN faults + 1 ELSE faults
          /\ cacheFiles' = IF cached THEN cacheFiles
                           ELSE SaveToCache(cacheFiles, cacheFile,
                                            got.studies, got.error)
          /\ studyInstanceUIDWidgets' =
               IF error THEN <<>> ELSE PopulateTableWidget(<<>>, shown)
          /\ lastListing' =
               [op          |-> "studies",
                cacheFile   |-> cacheFile,
                entryBefore |-> entry,
                useCache    |-> useCacheFlag,
                requests    |-> IF cached THEN <<>> ELSE got.requests,
                pages       |-> IF cached THEN <<>> ELSE got.pages,
                populated   |-> ~error,
                shown       |-> IF error THEN <<>> ELSE shown,
                error       |-> error,
                cutOff      |-> IF cached THEN FALSE ELSE got.cutOff]
  /\ seriesInstanceUIDWidgets' = <<>>
  /\ seriesItemStudyInstanceUID' = <<>>
  /\ cellWidget' = [r \in Rows |-> 0]
  /\ selected' = {}
  /\ loadButtonEnabled' = FALSE
  /\ listingsLeft' = listingsLeft - 1
  /\ UNCHANGED <<downloadQueue, cancelDownloadRequested, useCacheFlag,
                 selectedStudyInstanceUID, tableRowCount,
                 cancelDownloadButtonEnabled, diskVars, scene, stack, jobs,
                 studiesTableEnabled, server>>

\* studySelected (lines 614-657) for a row of the studies table, up to the
\* call of populateSeriesTableWidget, which appends the series to the rows
\* the series table has; `st` is the state the call finds and the result is
\* the state it leaves.  The search request raises if `ok` is false.
studySelected(st, row, ok) ==
  LET studyInstanceUID == studyInstanceUIDWidgets[row]
      cacheFile == SeriesCacheFile(studyInstanceUID)
      entry == st.cacheFiles[cacheFile]
      hit == CacheHit(entry # Absent, useCacheFlag)
      cached == UseCachedSeries(hit, IF hit THEN JsonLoad(entry) ELSE <<>>)
      response == SearchForSeries(server, studyInstanceUID)
      error == ~cached /\ ~ok
      series == IF cached THEN JsonLoad(entry)
                ELSE IF ok THEN response ELSE <<>>
      widgets == PopulateTableWidget(st.widgets, series)
  IN [selectedStudyInstanceUID |-> studyInstanceUID,
      cacheFiles |-> IF cached THEN st.cacheFiles
                     ELSE SaveToCache(st.cacheFiles, cacheFile, response,
                                      error),
      widgets    |-> widgets,
      studyUIDs  |-> st.studyUIDs \o [i \in 1..Len(series) |-> studyInstanceUID],
      rowCount   |-> IF error THEN st.rowCount ELSE Len(widgets),
      errors     |-> IF error THEN st.errors + 1 ELSE st.errors,
      lastListing |->
        [op          |-> "series",
         cacheFile   |-> cacheFile,
         entryBefore |-> entry,
         useCache    |-> useCacheFlag,
         requests    |-> IF cached THEN <<>> ELSE <<studyInstanceUID>>,
         pages       |-> IF cached \/ error THEN <<>> ELSE <<response>>,
         populated   |-> ~error,
         shown       |-> series,
         error       |-> error,
         cutOff      |-> FALSE]]

\* The loop of lines 689-692: studySelected for every selected row, in row
\* order; the request for row failRow raises (0: none does).
RECURSIVE SelectStudies(_, _, _)
SelectStudies(st, rows, failRow) ==
  IF rows = {} THEN st
  ELSE LET row == CHOOSE r \in rows : \A q \in rows : r <= q
       IN SelectStudies(studySelected(st, row, row # failRow),
                        rows \ {row}, failRow)

\* The selections the user can make in the studies table.
StudySelections ==
  {rows \in SUBSET (1..Len(studyInstanceUIDWidgets)) :
     rows # {} /\ Cardinality(rows) <= MaxSelectedStudies}

\* studiesTableSelectionChanged (lines 685-692), the user selecting one or
\* more rows of the studies table: the series table is cleared (it keeps
\* its rows until a list is populated), the series of every selected study
\* are listed; each studySelected ends with onSeriesSelectAllButton (line
\* 657), so that every row listed is selected in the end.
studiesTableSelectionChanged ==
  /\ CanDispatch
  /\ studiesTableEnabled
  /\ listingsLeft > 0
  /\ \E rows \in StudySelections : \E failRow \in {0} \cup rows :
       \E st \in {SelectStudies(
                    [selectedStudyInstanceUID |-> selectedStudyInstanceUID,
                     cacheFiles |-> cacheFiles,
                     widgets |-> <<>>,
                     studyUIDs |-> <<>>,
                     rowCount |-> tableRowCount,
                     errors |-> 0,
                     lastListing |-> lastListing],
                    rows, failRow)} :
          /\ IF failRow = 0 THEN TRUE
             ELSE st.errors = 1 /\ faults < MaxFaults
          /\ faults' = faults + st.errors
          /\ selectedStudyInstanceUID' = st.selectedStudyInstanceUID
          /\ cacheFiles' = st.cacheFiles
          /\ seriesInstanceUIDWidgets' = st.widgets
          /\ seriesItemStudyInstanceUID' = st.studyUIDs
          /\ tableRowCount' = st.rowCount
          /\ cellWidget' = [r \in 1..st.rowCount |-> 0]
          /\ selected' = 1..Len(st.widgets)
          /\ loadButtonEnabled' = (st.widgets # <<>>)
          /\ lastListing' = st.lastListing
  /\ listingsLeft' = listingsLeft - 1
  /\ UNCHANGED <<downloadQueue, cancelDownloadRequested, useCacheFlag,
                 cancelDownloadButtonEnabled, diskVars, scene, stack, jobs,
                 studyInstanceUIDWidgets, studiesTableEnabled, server>>

\* ------------------------------------------------- downloadSelectedSeries

\* Variant of LoopCondition: the drain loop goes on while items are queued,
\* whatever cancelDownloadRequested says.
LoopCondition_IgnoresCancel(queue, cancelRequested) == queue # <<>>

\* Line 790: the condition of the drain loop.
LoopCondition(queue, cancelRequested) == queue # <<>> /\ ~cancelRequested

\* Lines 879-880: the cell widgets after the bars of the remaining queued
\* items have been removed.
RECURSIVE RemoveRemainingBars(_, _)
RemoveRemainingBars(cells, queue) ==
  IF queue = <<>> THEN cells
  ELSE RemoveRemainingBars(
         RemoveDownloadProgressBar(cells, jobs[Head(queue)].seriesInstanceUID),
         Tail(queue))

\* Variant of QueueAfterDrain: line 881 left out, the items stay queued.
QueueAfterDrain_Kept(queue) == queue

\* Line 881: the queue after the drain loop.
QueueAfterDrain(queue) == <<>>

\* Variant of CancelRequestedAfterDrain: the flag is cleared when the drain
\* returns.
CancelRequestedAfterDrain_Reset(cancelRequested) == FALSE

\* Lines 878-885: the end of downloadSelectedSeries leaves
\* cancelDownloadRequested as it is.
CancelRequestedAfterDrain(cancelRequested) == cancelRequested

\* Variant of QueuePop: the item appended last is taken, as by pop().
QueuePop_Last(queue) ==
  [item |-> queue[Len(queue)], rest |-> SubSeq(queue, 1, Len(queue) - 1)]

\* Line 791: downloadQueue.pop(0) takes the item at the head and leaves the
\* others in their order.
QueuePop(queue) == [item |-> Head(queue), rest |-> Tail(queue)]

\* The queued items for which removeDownloadProgressBar (line 880) raises.
RaisingItems(queue) ==
  {i \in 1..Len(queue) : RowLookupRaises(jobs[queue[i]].seriesInstanceUID)}

FirstRaisingItem(queue) ==
  CHOOSE i \in RaisingItems(queue) : \A k \in RaisingItems(queue) : i <= k

\* Lines 790-799 (a job is popped, its folder created, showStatus pumps
\* events) or lines 878-885 (the loop is over, the rest is discarded) or
\* lines 878-880 and 765-769 (discarding raises in getSeriesRowNumber).
drainLoop ==
  /\ Running("while")
  /\ IF LoopCondition(downloadQueue, cancelDownloadRequested)
       THEN LET queuedItem == QueuePop(downloadQueue).item
                folder == jobs[queuedItem].downloadFolderPath
            IN /\ downloadQueue' = QueuePop(downloadQueue).rest
               /\ dirs' = dirs \cup {folder}
               /\ jobs' = [jobs EXCEPT ![queuedItem].status = "active"]
               /\ stack' = SetTop([Top EXCEPT !.pc = "pump799",
                                              !.queuedItem = queuedItem,
                                              !.drained = @ \cup {queuedItem}])
               /\ UNCHANGED <<cellWidget, cancelDownloadButtonEnabled,
                              studiesTableEnabled, cancelDownloadRequested>>
       ELSE IF RaisingItems(downloadQueue) # {}
         THEN \* line 880 raises: the exception leaves downloadSelectedSeries
              \* and is caught at line 765, the handler ends
              /\ cellWidget' = RemoveRemainingBars(cellWidget,
                    SubSeq(downloadQueue, 1, FirstRaisingItem(downloadQueue) - 1))
              /\ stack' = Pop
              /\ UNCHANGED <<downloadQueue, jobs, dirs, cancelDownloadRequested,
                             cancelDownloadButtonEnabled, studiesTableEnabled>>
       ELSE /\ cellWidget' = RemoveRemainingBars(cellWidget, downloadQueue)
            /\ jobs' = [j \in 1..Len(jobs) |->
                         IF \E i \in 1..Len(downloadQueue) : downloadQueue[i] = j
                           THEN [jobs[j] EXCEPT !.status = "removed"]
                           ELSE jobs[j]]
            /\ downloadQueue' = QueueAfterDrain(downloadQueue)
            /\ cancelDownloadButtonEnabled' = FALSE
            /\ studiesTableEnabled' = TRUE
            /\ stack' = SetTop([Top EXCEPT !.pc = "returned"])
            /\ cancelDownloadRequested' =
                 CancelRequestedAfterDrain(cancelDownloadRequested)
            /\ UNCHANGED dirs
  /\ UNCHANGED listingVars
  /\ UNCHANGED <<uiVars, files, database, scene, faults>>

\* The except branch of lines 872-876: the job ends, the loop goes on.
JobRaised(job) == [job EXCEPT !.status = "failed", !.raised = TRUE]

\* Variant of RaiseInJob: the exception is swallowed where it was raised and
\* the instance loop goes on with the instance it was at.
RaiseInJob_Resume(frame) == [frame EXCEPT !.pc = "loop"]

\* An exception raised in the try block of lines 801-870 leaves the
\* instance loop and the rest of the block; after the except branch the
\* activation is back at the head of the drain loop (line 790).
RaiseInJob(frame) == [frame EXCEPT !.pc = "while"]

\* Lines 801-810: search_for_instances, then showStatus and processEvents.
searchForInstances ==
  /\ Running("pump799")
  /\ LET j == Top.queuedItem
         job == [jobs[j] EXCEPT !.searched = TRUE, !.requests = @ + 1]
     IN \E ok \in BOOLEAN :
          IF ok
            THEN /\ jobs' = [jobs EXCEPT ![j] = job]
                 /\ stack' = SetTop([Top EXCEPT
                        !.pc = "pump810",
                        !.instances = ServerInstances(job.seriesInstanceUID)])
                 /\ UNCHANGED faults
            ELSE /\ faults < MaxFaults
                 /\ faults' = faults + 1
                 /\ jobs' = [jobs EXCEPT
                        ![j] = JobRaised([job EXCEPT !.serverFailed = TRUE])]
                 /\ stack' = SetTop(RaiseInJob(Top))
  /\ UNCHANGED <<listingVars, studiesTableEnabled>>
  /\ UNCHANGED <<downloadQueue, cancelDownloadRequested, uiVars,
                 cancelDownloadButtonEnabled, cellWidget, diskVars, scene>>

\* Lines 814-825: size the progress bar of the row, read the local database;
\* or lines 814-816 and 872-876 when the row lookup raises.
beginInstanceLoop ==
  /\ Running("pump810")
  /\ LET j == Top.queuedItem
         series == jobs[j].seriesInstanceUID
         numberOfInstances == Len(Top.instances)
         bar == GetSeriesDownloadProgressBar(cellWidget, series)
         inDb == InstancesForSeries(database, series)
         js == IF bar # 0
                 THEN [jobs EXCEPT ![bar].downloadProgressBar =
                         SetValue(SetMaximum(@, numberOfInstances), 0)]
                 ELSE jobs
     IN IF RowLookupRaises(series)
          THEN \* line 816 raises in getSeriesRowNumber
               /\ jobs' = [jobs EXCEPT ![j] = JobRaised(@)]
               /\ stack' = SetTop(RaiseInJob(Top))
          ELSE /\ jobs' = [js EXCEPT ![j].alreadyInDatabase = inDb]
               /\ stack' = SetTop([Top EXCEPT
                                     !.pc = "loop",
                                     !.instanceIndex = 0,
                                     !.currentDownloadProgressBar = bar,
                                     !.instancesAlreadyInDatabase = inDb])
  /\ UNCHANGED <<listingVars, studiesTableEnabled>>
  /\ UNCHANGED <<downloadQueue, cancelDownloadRequested, uiVars,
                 cancelDownloadButtonEnabled, cellWidget, diskVars, scene, faults>>

\* Variant of InstanceLoopBreaks: the check of line 828 left out.
InstanceLoopBreaks_Never(cancelRequested) == FALSE

\* Line 828: the instance loop stops when cancel has been requested.
InstanceLoopBreaks(cancelRequested) == cancelRequested

\* Lines 827-832: head of the instance loop, up to processEvents.
instanceLoop ==
  /\ Running("loop")
  /\ LET j == Top.queuedItem
         bar == Top.currentDownloadProgressBar
     IN IF Top.instanceIndex >= Len(Top.instances)
          THEN /\ stack' = SetTop([Top EXCEPT !.pc = "post"])
               /\ UNCHANGED jobs
          ELSE IF InstanceLoopBreaks(cancelDownloadRequested)
            THEN /\ stack' = SetTop([Top EXCEPT !.pc = "post"])
                 /\ jobs' = [jobs EXCEPT ![j].observedCancel =
                                            cancelDownloadRequested]
            ELSE /\ stack' = SetTop([Top EXCEPT !.pc = "pump832"])
                 /\ jobs' = IF BarAlive(cellWidget, bar)
                              THEN [jobs EXCEPT ![bar].downloadProgressBar =
                                      SetValue(@, Top.instanceIndex)]
                              ELSE jobs
  /\ UNCHANGED <<listingVars, studiesTableEnabled>>
  /\ UNCHANGED <<downloadQueue, cancelDownloadRequested, uiVars,
                 cancelDownloadButtonEnabled, cellWidget, diskVars, scene, faults>>

\* Variant of NeedsRetrieve: the test of line 840 left out.
NeedsRetrieve_Always(isFile, useCache) == TRUE

\* Line 840: the instance is fetched unless its file is already staged and
\* the cache is in use.
NeedsRetrieve(isFile, useCache) == ~isFile \/ ~useCache

\* Variant of WriteFile: a file that exists is kept and the data is written
\* to a new file next to it.
WriteFile_KeepsOld(fs, fileName, sop) ==
  IF \E f \in fs : f.folder = fileName.folder /\ f.name = fileName.name
    THEN fs \cup {[folder |-> fileName.folder,
                   name |-> <<fileName.name[1], " (1).dcm">>,
                   sop |-> sop]}
    ELSE fs \cup {[folder |-> fileName.folder, name |-> fileName.name,
                   sop |-> sop]}

\* pydicom.filewriter.write_file(fileName, ...): creates or overwrites.
WriteFile(fs, fileName, sop) ==
  {f \in fs : ~(f.folder = fileName.folder /\ f.name = fileName.name)}
    \cup {[folder |-> fileName.folder, name |-> fileName.name, sop |-> sop]}

\* History: a retrieve_instance call for the instance is issued.
Retrieve(job, sopInstanceUid) ==
  [job EXCEPT !.retrieved = @ \cup {sopInstanceUid},
              !.requests = @ + 1,
              !.afterCancel = IF job.cancelAt >= 0
                                THEN @ \cup {sopInstanceUid} ELSE @]

\* Lines 834-847: skip an instance of the database, else fetch and stage it.
fetchInstance ==
  /\ Running("pump832")
  /\ LET j == Top.queuedItem
         job == jobs[j]
         sopInstanceUid == Top.instances[Top.instanceIndex + 1]
         fileName == FileName(job.downloadFolderPath, sopInstanceUid)
         isFile == \E f \in files :
                      f.folder = fileName.folder /\ f.name = fileName.name
         next == [Top EXCEPT !.pc = "loop", !.instanceIndex = @ + 1]
         called == Retrieve(
                     [job EXCEPT !.staged = IF isFile /\ useCacheFlag
                                              THEN @ \cup {sopInstanceUid}
                                              ELSE @],
                     sopInstanceUid)
     IN IF sopInstanceUid \in Top.instancesAlreadyInDatabase
          THEN /\ jobs' = [jobs EXCEPT ![j].processed = @ + 1]
               /\ stack' = SetTop(next)
               /\ UNCHANGED <<files, faults>>
          ELSE IF ~NeedsRetrieve(isFile, useCacheFlag)
            THEN /\ jobs' = [jobs EXCEPT ![j].processed = @ + 1,
                                         ![j].staged = @ \cup {sopInstanceUid}]
                 /\ stack' = SetTop(next)
                 /\ UNCHANGED <<files, faults>>
            ELSE \E ok \in BOOLEAN :
                   IF ~ok
                     THEN /\ faults < MaxFaults
                          /\ faults' = faults + 1
                          /\ jobs' = [jobs EXCEPT ![j] = JobRaised(
                                 [called EXCEPT !.serverFailed = TRUE,
                                                !.retrieveFailed = TRUE])]
                          /\ stack' = SetTop(RaiseInJob(Top))
                          /\ UNCHANGED files
                     ELSE IF job.downloadFolderPath \in dirs
                       THEN /\ files' = WriteFile(files, fileName, sopInstanceUid)
                            /\ jobs' = [jobs EXCEPT ![j] =
                                   [called EXCEPT
                                      !.processed = @ + 1,
                                      !.written = @ \cup {sopInstanceUid},
                                      !.overwritten =
                                         IF isFile
                                           THEN @ \cup {sopInstanceUid}
                                           ELSE @]]
                            /\ stack' = SetTop(next)
                            /\ UNCHANGED faults
                       ELSE \* the folder is gone: write_file raises
                            /\ jobs' = [jobs EXCEPT ![j] = JobRaised(called)]
                            /\ stack' = SetTop(RaiseInJob(Top))
                            /\ UNCHANGED <<files, faults>>
  /\ UNCHANGED <<listingVars, studiesTableEnabled>>
  /\ UNCHANGED <<downloadQueue, cancelDownloadRequested, uiVars,
                 cancelDownloadButtonEnabled, cellWidget, dirs, database, scene>>

\* Variant of ImportAllowed: the test of line 855 left out.
ImportAllowed_Always(cancelRequested) == TRUE

\* Line 855: the job is imported when cancel has not been requested.
ImportAllowed(cancelRequested) == ~cancelRequested

\* Lines 849-860 (import follows, showStatus pumps events first) or
\* lines 849-855 and 870 (cancelled: only the progress bar is removed) or
\* lines 849-854 and 872-876 (the series is no longer listed in the table).
afterInstanceLoop ==
  /\ Running("post")
  /\ LET j == Top.queuedItem
         bar == Top.currentDownloadProgressBar
     IN IF GetSeriesRowNumber(jobs[j].seriesInstanceUID) < 0
          THEN \* the row lookup raises (851), or the series is not listed:
               \* table.item is None and setIcon raises (854)
               /\ jobs' = [jobs EXCEPT ![j] = JobRaised(@)]
               /\ stack' = SetTop(RaiseInJob(Top))
               /\ UNCHANGED cellWidget
        ELSE IF ImportAllowed(cancelDownloadRequested)
          THEN /\ jobs' = IF BarAlive(cellWidget, bar)
                            THEN [jobs EXCEPT ![bar].downloadProgressBar =
                                    SetValue(@, Len(Top.instances))]
                            ELSE jobs
               /\ stack' = SetTop([Top EXCEPT !.pc = "pump860"])
               /\ UNCHANGED cellWidget
          ELSE /\ jobs' = [jobs EXCEPT
                      ![j].status = "cancelled",
                      ![j].observedCancel = @ \/ cancelDownloadRequested]
               /\ cellWidget' = RemoveDownloadProgressBar(
                                  cellWidget, jobs[j].seriesInstanceUID)
               /\ stack' = SetTop([Top EXCEPT !.pc = "while"])
  /\ UNCHANGED <<listingVars, studiesTableEnabled>>
  /\ UNCHANGED <<downloadQueue, cancelDownloadRequested, uiVars,
                 cancelDownloadButtonEnabled, diskVars, scene, faults>>

\* Variant of AddDirectory: the folder is indexed after its files have been
\* removed, nothing is imported.
AddDirectory_AfterCleanup(db, fs, folderExists, folder, indexerOk) == db

\* indexer.addDirectory(database, folder, True) and waitForImportFinished
\* (lines 861-862): the instances of the files are added to the database,
\* unless the indexer fails.
AddDirectory(db, fs, folderExists, folder, indexerOk) ==
  IF indexerOk /\ folderExists
    THEN db \cup {f.sop : f \in FilesIn(fs, folder)} ELSE db

\* Variant of RemoveListedFiles: the loop of lines 865-866 left out.
RemoveListedFiles_None(fs, folder) == fs

\* Lines 865-866: every file listed in the folder is removed.
RemoveListedFiles(fs, folder) == fs \ FilesIn(fs, folder)

\* Line 867: os.rmdir.
RemoveDir(ds, folder) == ds \ {folder}

\* Lines 861-870: import the staged files, then delete them and the folder.
importAndCleanup ==
  /\ Running("pump860")
  /\ LET j == Top.queuedItem
         folder == jobs[j].downloadFolderPath
         left == RemoveListedFiles(files, folder)
     IN \E indexerOk \in BOOLEAN :
          /\ indexerOk \/ faults < MaxFaults
          /\ faults' = IF indexerOk THEN faults ELSE faults + 1
          /\ database' = AddDirectory(database, files, folder \in dirs,
                                      folder, indexerOk)
          /\ LET job == [jobs[j] EXCEPT !.imported = TRUE,
                                        !.importFailed = ~indexerOk]
             IN IF folder \notin dirs
                  THEN \* os.listdir raises
                       /\ jobs' = [jobs EXCEPT ![j] = JobRaised(job)]
                       /\ UNCHANGED <<files, dirs, cellWidget>>
                  ELSE IF FilesIn(left, folder) # {}
                    THEN \* os.rmdir raises on a folder that is not empty
                         /\ files' = left
                         /\ jobs' = [jobs EXCEPT ![j] = JobRaised(job)]
                         /\ UNCHANGED <<dirs, cellWidget>>
                    ELSE /\ files' = left
                         /\ dirs' = RemoveDir(dirs, folder)
                         /\ jobs' = [jobs EXCEPT
                              ![j] = [job EXCEPT
                                 !.status = "done",
                                 !.raised = RowLookupRaises(job.seriesInstanceUID)]]
                         /\ cellWidget' =
                              IF RowLookupRaises(job.seriesInstanceUID)
                                THEN cellWidget   \* line 870 raises
                                ELSE RemoveDownloadProgressBar(
                                       cellWidget, job.seriesInstanceUID)
          /\ stack' = SetTop([Top EXCEPT !.pc = "while"])
  /\ UNCHANGED <<listingVars, studiesTableEnabled>>
  /\ UNCHANGED <<downloadQueue, cancelDownloadRequested, uiVars,
                 cancelDownloadButtonEnabled, scene>>

\* ------------------------------------ addSelectedToDownloadQueue, the rest

\* Lines 748-751 and 764-769: downloadSelectedSeries has returned.
afterDownload ==
  /\ Running("returned")
  /\ stack' = IF Top.loadToScene
                THEN SetTop([Top EXCEPT !.pc = "loadLoop", !.seriesIndex = 0])
                ELSE Pop
  /\ UNCHANGED <<listingVars, studiesTableEnabled>>
  /\ UNCHANGED <<downloadQueue, cancelDownloadRequested, uiVars,
                 cancelDownloadButtonEnabled, cellWidget, diskVars, scene,
                 jobs, faults>>

\* Lines 752-758: head of the load loop, up to the events showStatus pumps.
loadLoop ==
  /\ Running("loadLoop")
  /\ stack' = IF Top.seriesIndex >= Len(Top.allSelectedSeriesUIDs)
                   \/ cancelDownloadRequested
                THEN Pop
                ELSE SetTop([Top EXCEPT !.pc = "pump758"])
  /\ UNCHANGED <<listingVars, studiesTableEnabled>>
  /\ UNCHANGED <<downloadQueue, cancelDownloadRequested, uiVars,
                 cancelDownloadButtonEnabled, cellWidget, diskVars, scene,
                 jobs, faults>>

\* Variant of LoadSeriesByUID: the series is loaded twice.
LoadSeriesByUID_Twice(sc, db, seriesUID) ==
  IF InstancesForSeries(db, seriesUID) # {}
    THEN sc \o <<seriesUID, seriesUID>> ELSE sc

\* DICOMUtils.loadSeriesByUID([seriesUID]) (line 762): the series is loaded
\* from the local database, if the database holds it.
LoadSeriesByUID(sc, db, seriesUID) ==
  IF InstancesForSeries(db, seriesUID) # {}
    THEN Append(sc, seriesUID) ELSE sc

\* Lines 759-762: the series is loaded into the scene.
loadSeries ==
  /\ Running("pump758")
  /\ LET seriesUID == Top.allSelectedSeriesUIDs[Top.seriesIndex + 1]
     IN /\ scene' = LoadSeriesByUID(scene, database, seriesUID)
        /\ stack' = SetTop([Top EXCEPT
                              !.pc = "loadLoop",
                              !.seriesIndex = @ + 1,
                              !.loads = @ + Len(scene') - Len(scene)])
  /\ UNCHANGED <<listingVars, studiesTableEnabled>>
  /\ UNCHANGED <<downloadQueue, cancelDownloadRequested, uiVars,
                 cancelDownloadButtonEnabled, cellWidget, diskVars, jobs, faults>>

Next ==
  \/ seriesSelected
  \/ onUseCacheStateChanged
  \/ onCancelDownloadButton
  \/ onIndexButton
  \/ onLoadButton
  \/ drainLoop
  \/ searchForInstances
  \/ beginInstanceLoop
  \/ instanceLoop
  \/ fetchInstance
  \/ afterInstanceLoop
  \/ importAndCleanup
  \/ afterDownload
  \/ loadLoop
  \/ loadSeries
  \/ connectToServer
  \/ studiesTableSelectionChanged

Spec == Init /\ [][Next]_vars

\* ------------------------------------------------ listing specification
\* Servers of every kind.
Servers ==
  OffsetServers \cup FixedServers \cup ScriptedServers \cup CyclicServers

\* Cache files left by earlier sessions: none, an empty list, or a list
\* fetched when the server held something else.
CachedStudies ==
  {Absent, JsonDump(<<>>), JsonDump(<<StudyRecord(2), StudyRecord(1)>>)}
CachedSeries == {Absent, JsonDump(<<>>), JsonDump(<<SeriesRecord(NumSeries)>>)}

InitialCaches ==
  {[f \in CacheFileNames |->
      IF f = StudiesCacheFile(ServerUrl) THEN a ELSE b] :
     a \in CachedStudies, b \in CachedSeries}

\* The widget after construction (lines 41-71, setup): empty tables, empty
\* queue, the cache in use.
ListingInit ==
  /\ downloadQueue = <<>>
  /\ cancelDownloadRequested = FALSE
  /\ useCacheFlag = TRUE
  /\ selectedStudyInstanceUID = 0
  /\ seriesInstanceUIDWidgets = <<>>
  /\ tableRowCount = 0
  /\ selected = {}
  /\ loadButtonEnabled = FALSE
  /\ cancelDownloadButtonEnabled = FALSE
  /\ cellWidget = <<>>
  /\ dirs = {}
  /\ files = {}
  /\ database = {}
  /\ scene = <<>>
  /\ stack = <<>>
  /\ jobs = <<>>
  /\ faults = 0
  /\ studyInstanceUIDWidgets = <<>>
  /\ seriesItemStudyInstanceUID = <<>>
  /\ studiesTableEnabled = TRUE
  /\ cacheFiles \in InitialCaches
  /\ server \in Servers
  /\ lastListing = NoListing
  /\ listingsLeft = ListingCalls

ListingNext ==
  \/ connectToServer
  \/ studiesTableSelectionChanged
  \/ onUseCacheStateChanged

ListingSpec == ListingInit /\ [][ListingNext]_vars

\* ------------------------------------------------ enqueue specification
\* The widget after Connect has listed two studies of a server that holds
\* NumSeries series for each of them: nothing selected, the series table
\* empty, no series list cached.
EnqueueInit ==
  /\ downloadQueue = <<>>
  /\ cancelDownloadRequested = FALSE
  /\ useCacheFlag = TRUE
  /\ selectedStudyInstanceUID = 0
  /\ seriesInstanceUIDWidgets = <<>>
  /\ tableRowCount = 0
  /\ selected = {}
  /\ loadButtonEnabled = FALSE
  /\ cancelDownloadButtonEnabled = FALSE
  /\ cellWidget = <<>>
  /\ dirs = {}
  /\ files = {}
  /\ database = {}
  /\ scene = <<>>
  /\ stack = <<>>
  /\ jobs = <<>>
  /\ faults = 0
  /\ studyInstanceUIDWidgets = <<1, 2>>
  /\ seriesItemStudyInstanceUID = <<>>
  /\ studiesTableEnabled = TRUE
  /\ cacheFiles = [f \in CacheFileNames |->
                     IF f = StudiesCacheFile(ServerUrl)
                       THEN JsonDump(<<StudyRecord(1), StudyRecord(2)>>)
                       ELSE Absent]
  /\ server = [kind |-> "offset",
               studies |-> <<StudyRecord(1), StudyRecord(2)>>,
               limit |-> PageLimit, pages |-> <<>>, series |-> AllSeries]
  /\ lastListing = NoListing
  /\ listingsLeft = ListingCalls

\* The events up to the click that queues jobs; the handler of the click
\* is followed as far as line 788.
EnqueueNext ==
  \/ studiesTableSelectionChanged
  \/ seriesSelected
  \/ onUseCacheStateChanged
  \/ onIndexButton
  \/ onLoadButton

EnqueueSpec == EnqueueInit /\ [][EnqueueNext]_vars

\* Sanity of the model's state.
TypeOK ==
  /\ cancelDownloadRequested \in BOOLEAN
  /\ Len(stack) <= MaxDepth
  /\ Len(jobs) <= MaxJobs
  /\ \A i \in 1..Len(downloadQueue) : jobs[downloadQueue[i]].status = "queued"
  /\ DOMAIN cellWidget = Rows
  /\ selected \subseteq WidgetRows
  /\ Len(seriesInstanceUIDWidgets) <= tableRowCount
  /\ Len(seriesItemStudyInstanceUID) = Len(seriesInstanceUIDWidgets)
  /\ listingsLeft \in 0..(MaxListings + ListingCalls)
  /\ ~lastListing.cutOff

\* ------------------------------------------------------------- properties
JobIds == 1..Len(jobs)

InstanceSet(j) ==
  {ServerInstances(jobs[j].seriesInstanceUID)[k] : k \in 1..NumInstances}

\* The job the running activation has just finished: it is back at the head
\* of the drain loop and has not popped the next item yet.
JustEnded(j) == Running("while") /\ Top.queuedItem = j

\* C1: at most one job has been popped from downloadQueue and has not yet
\* ended (completed, failed or abandoned on cancel), in every reachable
\* state, clicks dispatched by the event pump included.
C1_AtMostOneActiveJob == Cardinality(ActiveJobs) <= 1

\* C2 (as claimed): once cancel is requested during a job after k of its n
\* instances, with no enqueue afterwards, no retrieve_instance call is
\* issued for that job any more.
C2_NoRetrieveAfterCancel ==
  \A j \in JobIds : jobs[j].cancelAt >= 0 => jobs[j].afterCancel = {}

\* C2 (amended): after such a cancel request the only retrieve_instance
\* call the job can still issue is the one for instance k+1, whose cancel
\* check had passed before the event pump delivered the click; none is
\* issued for the instances after it.
C2_OnlyCurrentInstanceAfterCancel ==
  \A j \in JobIds :
    jobs[j].cancelAt >= 0 =>
      jobs[j].afterCancel \subseteq
        {ServerInstances(jobs[j].seriesInstanceUID)[k] :
           k \in {jobs[j].cancelAt + 1} \cap (1..NumInstances)}

\* C2 witness: a job ended by cancellation with instances left, after one
\* retrieve_instance call that followed the cancel request.
C2_Witness ==
  \E j \in JobIds :
    /\ jobs[j].status = "cancelled"
    /\ jobs[j].cancelAt >= 0
    /\ jobs[j].afterCancel # {}
    /\ jobs[j].processed < NumInstances

\* C3: addDirectory (import and cleanup) is invoked for a job only if its
\* instance loop went through every instance, no read of
\* cancelDownloadRequested at lines 828/855 gave True and no server request
\* raised.
C3_ImportOnlyAfterCompleteLoop ==
  \A j \in JobIds :
    jobs[j].imported =>
      /\ ~jobs[j].observedCancel
      /\ ~jobs[j].serverFailed
      /\ jobs[j].processed = NumInstances

\* C3 witness: one job was imported and completed, another one saw the
\* cancel flag in its instance loop and stopped before its last instance.
C3_Witness ==
  \E j, k \in JobIds :
    /\ jobs[j].imported /\ jobs[j].status = "done"
    /\ jobs[k].observedCancel /\ jobs[k].processed < NumInstances

\* C4: when every handler has returned and Cancel was never clicked, every
\* queued job has been processed and the number of addDirectory calls
\* equals the number of jobs without a failed server request.
C4_FailureDoesNotStopDrain ==
  (stack = <<>> /\ \A j \in JobIds : ~jobs[j].cancelClicked) =>
     /\ \A j \in JobIds : jobs[j].status \in {"done", "failed"}
     /\ Cardinality({j \in JobIds : jobs[j].imported})
          = Cardinality({j \in JobIds : ~jobs[j].serverFailed})

\* C5 (as claimed): a job that completes issues as many retrieve_instance
\* calls as there are remote instances outside the database's instance set
\* of the series, whatever is staged and whatever the cache setting.
C5_RetrievesEqualNotInDatabase ==
  \A j \in JobIds :
    jobs[j].status = "done" =>
      Cardinality(jobs[j].retrieved)
        = Cardinality(InstanceSet(j) \ jobs[j].alreadyInDatabase)

\* C5 (amended): a job that completes has issued retrieve_instance exactly
\* for the remote instances that are outside the database's instance set
\* read at line 825 and whose file was not already in the staging folder
\* with the cache in use when the instance was processed.
C5_RetrievesEqualNotInDatabaseNotStaged ==
  \A j \in JobIds :
    jobs[j].status = "done" =>
      jobs[j].retrieved
        = (InstanceSet(j) \ jobs[j].alreadyInDatabase) \ jobs[j].staged

\* C5 witness: a completed job that fetched some instances and found
\* another one already staged.
C5_Witness ==
  \E j \in JobIds :
    /\ jobs[j].status = "done"
    /\ jobs[j].staged # {}
    /\ jobs[j].retrieved # {}

\* C6: right after a job that completed its folder holds no file and does
\* not exist; when the drain that processed a cancelled job returns, the
\* job's folder and the files it had written before the cancel exist.
C6_StagingAfterJob ==
  /\ \A j \in JobIds :
       (JustEnded(j) /\ jobs[j].status = "done") =>
          /\ jobs[j].downloadFolderPath \notin dirs
          /\ FilesIn(files, jobs[j].downloadFolderPath) = {}
  /\ Running("returned") =>
       \A j \in Top.drained :
         jobs[j].status = "cancelled" =>
           /\ jobs[j].downloadFolderPath \in dirs
           /\ \A u \in jobs[j].writtenAtCancel :
                \E f \in files : /\ f.folder = jobs[j].downloadFolderPath
                                 /\ f.sop = u

\* C7 (as claimed): right after a job ended by success, by skipping every
\* instance or by cancellation, its folder holds no file.
C7_NoResidualFilesAfterJob ==
  \A j \in JobIds :
    (JustEnded(j) /\ jobs[j].status \in {"done", "cancelled"}) =>
       FilesIn(files, jobs[j].downloadFolderPath) = {}

\* C7 (amended): right after a job whose instance loop ended without
\* cancellation (its import was invoked: success, or every instance
\* skipped), its folder holds no file; cleanup is not unconditional, a job
\* that ends by cancellation is not cleaned up.
C7_NoResidualFilesAfterImport ==
  \A j \in JobIds :
    (JustEnded(j) /\ jobs[j].imported) =>
       FilesIn(files, jobs[j].downloadFolderPath) = {}

\* C7 witness: a job that wrote files has just ended after its import.
C7_Witness ==
  \E j \in JobIds :
    /\ JustEnded(j) /\ jobs[j].imported /\ jobs[j].written # {}

\* C8: in the step in which the indexer reports a failure for a job, the
\* files of the job's folder and the folder itself are not deleted.
C8_FailedImportKeepsStaging ==
  [][\A j \in JobIds :
       (~jobs[j].importFailed /\ jobs'[j].importFailed) =>
          /\ FilesIn(files, jobs[j].downloadFolderPath) \subseteq files'
          /\ jobs[j].downloadFolderPath \in dirs
               => jobs[j].downloadFolderPath \in dirs']_vars

\* C9: jobs queued by a click the event pump dispatches during a drain are
\* left to that drain: no activation above one that is suspended inside
\* downloadSelectedSeries is itself inside downloadSelectedSeries.
C9_NoNestedDrain ==
  \A i, k \in 1..Len(stack) :
    i < k => ~(stack[i].pc \in DrainPcs /\ stack[k].pc \in DrainPcs)

C11_CancelStaysUntilEnqueue ==
  [][(cancelDownloadRequested /\ ~cancelDownloadRequested') =>
        Len(stack') = Len(stack) + 1]_vars

\* C11 witness: the flag is still set after the cancelled job ended, the
\* drain and its handler returned and a Connect click listed the studies.
C11_Witness ==
  /\ cancelDownloadRequested
  /\ stack = <<>>
  /\ \E j \in JobIds : jobs[j].status = "cancelled"
  /\ lastListing.op = "studies"

\* The progress bar an activation holds in currentDownloadProgressBar.
BarOf(frame) == jobs[frame.currentDownloadProgressBar].downloadProgressBar

\* C12 (as claimed): right after an instance of a job has been processed
\* (the loop is back at its head), the value of the job's progress bar is
\* the number of instances processed so far, within 0..total; a job about
\* to be imported reports total.
C12_ProgressAfterEachInstance ==
  \A i \in 1..Len(stack) :
    LET frame == stack[i]
        total == Len(frame.instances)
    IN BarAlive(cellWidget, frame.currentDownloadProgressBar) =>
         /\ (frame.pc = "loop" /\ frame.instanceIndex >= 1) =>
               /\ BarOf(frame).value = jobs[frame.queuedItem].processed
               /\ BarOf(frame).value \in 0..total
         /\ frame.pc = "pump860" => BarOf(frame).value = total

\* C12 (amended): whenever the instance loop pumps events (line 832, right
\* after setValue), the progress bar of the job, while it exists, shows the
\* number of instances processed so far, within 0..total, total being the
\* bar's maximum and the number of remote instances; a job about to be
\* imported reports total.  The value is advanced at the start of the next
\* iteration, not right after an instance is processed.
C12_ProgressAtEachPump ==
  \A i \in 1..Len(stack) :
    LET frame == stack[i]
        total == Len(frame.instances)
    IN BarAlive(cellWidget, frame.currentDownloadProgressBar) =>
         /\ frame.pc = "pump832" =>
               /\ BarOf(frame).value = jobs[frame.queuedItem].processed
               /\ BarOf(frame).value \in 0..total
               /\ BarOf(frame).maximum = total
         /\ frame.pc = "pump860" =>
               /\ BarOf(frame).value = total
               /\ BarOf(frame).maximum = total
               /\ jobs[frame.queuedItem].processed = total

\* C12 witness: a job that skipped an instance and downloaded another one
\* is about to be imported, its progress bar still in the table.
C12_Witness ==
  /\ Running("pump860")
  /\ BarAlive(cellWidget, Top.currentDownloadProgressBar)
  /\ jobs[Top.queuedItem].alreadyInDatabase # {}
  /\ jobs[Top.queuedItem].retrieved # {}

\* ---------------------------------------------------- listing properties
RECURSIVE Concat(_)
Concat(pages) ==
  IF pages = <<>> THEN <<>> ELSE Head(pages) \o Concat(Tail(pages))

\* The pages received before the n-th one, concatenated.
RecordsBefore(pages, n) == Concat(SubSeq(pages, 1, n - 1))

InList(record, list) == \E i \in 1..Len(list) : list[i] = record

\* The last listing fetched the study list from the server, which answered
\* every request.
StudiesFetched ==
  /\ lastListing.op = "studies"
  /\ lastListing.requests # <<>>
  /\ ~lastListing.error

\* C13: against a server that honours offset, every page request of the
\* study listing carries the number of records received so far as offset,
\* the listing stops at the first empty page and shows the concatenation of
\* the non-empty pages, which is the server's study list.
C13_PagingFollowsOffset ==
  (lastListing.op = "studies" /\ server.kind = "offset") =>
    LET L == lastListing
        last == Len(L.pages)
    IN /\ \A n \in 1..Len(L.requests) :
            L.requests[n] = Len(RecordsBefore(L.pages, n))
       /\ StudiesFetched =>
            /\ Len(L.requests) = last
            /\ L.pages[last] = <<>>
            /\ \A n \in 1..(last - 1) : L.pages[n] # <<>>
            /\ L.shown = Concat(L.pages)
            /\ L.shown = server.studies

\* C13 witness: pages [A,B], [C], [] requested at offsets 0, 2, 3.
C13_Witness ==
  /\ StudiesFetched
  /\ server.kind = "offset"
  /\ lastListing.requests = <<0, 2, 3>>
  /\ lastListing.shown = <<StudyRecord(1), StudyRecord(2), StudyRecord(3)>>

\* C14: against a server that answers every request with the same non-empty
\* page, the study listing issues exactly two requests and shows the page
\* once.
C14_SamePageTwoRequests ==
  (StudiesFetched /\ server.kind = "fixed") =>
     /\ Len(lastListing.requests) = 2
     /\ lastListing.shown = server.studies

\* C14 witness: the page [A,B] fetched from such a server.
C14_Witness ==
  /\ StudiesFetched
  /\ server.kind = "fixed"
  /\ lastListing.shown = <<StudyRecord(1), StudyRecord(2)>>

\* C15 (as claimed): the page at which the paging loop stops is empty or
\* starts with the first record of the page before it.
C15_StopsOnPreviousFirstRecord ==
  StudiesFetched =>
    LET pages == lastListing.pages
        last == Len(pages)
    IN pages[last] # <<>> =>
         /\ last >= 2
         /\ pages[last][1] = pages[last - 1][1]

\* C15 (amended): the paging loop stops at a non-empty page exactly when the
\* first record of the page is among the records of the pages received
\* before it (any of them, not only the first record of the previous page);
\* a non-empty page whose first record is not among them is appended and
\* paging goes on.
C15_StopsOnSeenFirstRecord ==
  StudiesFetched =>
    LET pages == lastListing.pages
        last == Len(pages)
    IN /\ \A n \in 1..(last - 1) :
            /\ pages[n] # <<>>
            /\ ~InList(pages[n][1], RecordsBefore(pages, n))
       /\ pages[last] # <<>> =>
            InList(pages[last][1], RecordsBefore(pages, last))
       /\ lastListing.shown = RecordsBefore(pages, last)

\* C15 witness: the loop stopped at a page that starts with a record of the
\* previous page that is not that page's first record.
C15_Witness ==
  /\ StudiesFetched
  /\ Len(lastListing.pages) = 2
  /\ lastListing.pages[1] = <<StudyRecord(1), StudyRecord(2)>>
  /\ lastListing.pages[2] = <<StudyRecord(2), StudyRecord(3)>>

\* C16: a series listing with the cache in use and a cache file holding an
\* empty list issues a search_for_series request and, when it is answered,
\* the file holds the response.
C16_EmptySeriesEntryRefetched ==
  (/\ lastListing.op = "series"
   /\ lastListing.useCache
   /\ lastListing.entryBefore = JsonDump(<<>>)) =>
     /\ lastListing.requests # <<>>
     /\ ~lastListing.error =>
          cacheFiles[lastListing.cacheFile] =
            JsonDump(SearchForSeries(server, selectedStudyInstanceUID))

\* C17: a study listing with the cache in use and a cache file holding an
\* empty list pages the server from offset 0 as if there were no file; when
\* every request is answered the file holds the list fetched, which is the
\* list shown, and when one fails the file is left as it was.
C17_EmptyStudiesEntryRefetched ==
  (/\ lastListing.op = "studies"
   /\ lastListing.useCache
   /\ lastListing.entryBefore = JsonDump(<<>>)) =>
     LET L == lastListing
     IN /\ L.requests # <<>>
        /\ L.requests[1] = 0
        /\ ~L.error =>
             /\ L.populated
             /\ L.shown = RecordsBefore(L.pages, Len(L.pages))
             /\ cacheFiles[L.cacheFile] = JsonDump(L.shown)
        /\ L.error => cacheFiles[L.cacheFile] = L.entryBefore

\* C17 witness: such a listing fetched a non-empty study list.
C17_Witness ==
  /\ StudiesFetched
  /\ lastListing.useCache
  /\ lastListing.entryBefore = JsonDump(<<>>)
  /\ lastListing.shown # <<>>

\* The last listing found a cache file with a non-empty list.
NonEmptyEntry ==
  /\ lastListing.op \in {"studies", "series"}
  /\ lastListing.entryBefore # Absent
  /\ JsonLoad(lastListing.entryBefore) # <<>>

\* C18: a study or series listing with the cache in use and a cache file
\* holding a non-empty list shows exactly the list last written to the
\* file, issues no search request and leaves the file as it is.
C18_CachedListingServedFromCache ==
  (NonEmptyEntry /\ lastListing.useCache) =>
     /\ lastListing.requests = <<>>
     /\ ~lastListing.error
     /\ lastListing.populated
     /\ JsonDump(lastListing.shown) = lastListing.entryBefore
     /\ cacheFiles[lastListing.cacheFile] = lastListing.entryBefore

\* C18 witness: a series listing served from a file that an earlier listing
\* of this run wrote.
C18_Witness ==
  /\ NonEmptyEntry
  /\ lastListing.useCache
  /\ lastListing.op = "series"
  /\ lastListing.entryBefore \notin CachedSeries

\* What the server answered to the last listing, the stop page left out.
FetchedResult ==
  IF lastListing.op = "series" THEN lastListing.pages[1]
  ELSE RecordsBefore(lastListing.pages, Len(lastListing.pages))

\* C19: a study or series listing with the cache not in use issues a search
\* request, also when a cache file with a non-empty list exists, and when
\* the server answers the file holds exactly the list fetched.
C19_CacheDisabledRefetches ==
  (lastListing.op \in {"studies", "series"} /\ ~lastListing.useCache) =>
     /\ lastListing.requests # <<>>
     /\ ~lastListing.error =>
          /\ cacheFiles[lastListing.cacheFile] = JsonDump(FetchedResult)
          /\ lastListing.shown = FetchedResult

\* C19 witness: a non-empty cached study list was replaced by a different,
\* non-empty list fetched with the cache not in use.
C19_Witness ==
  /\ NonEmptyEntry
  /\ StudiesFetched
  /\ ~lastListing.useCache
  /\ FetchedResult # <<>>
  /\ \E r \in StudyRecords :
       /\ InList(r, JsonLoad(lastListing.entryBefore))
       /\ ~InList(r, JsonLoad(cacheFiles[lastListing.cacheFile]))

\* C20: when a page request of a study listing is not answered, the error
\* message is shown and the cache file is what it was before the call.
C20_FailedListingKeepsCache ==
  (/\ lastListing.op = "studies"
   /\ Len(lastListing.requests) > Len(lastListing.pages)) =>
     /\ lastListing.error
     /\ ~lastListing.populated
     /\ cacheFiles[lastListing.cacheFile] = lastListing.entryBefore

\* C20 witness: the second page request failed after a first page had been
\* received, with a cache file of an earlier session present.
C20_Witness ==
  /\ lastListing.op = "studies"
  /\ lastListing.error
  /\ Len(lastListing.requests) = 2
  /\ lastListing.pages # <<>>
  /\ lastListing.entryBefore # Absent

\* ------------------------------------------------- download properties, 2
\* C21: the files of a staging folder have distinct names and no two of
\* them hold the same SOP instance: an instance that is downloaded again,
\* the cache not in use, is written over the file of the earlier download.
C21_OneFilePerInstance ==
  \A f, g \in files :
    (f.folder = g.folder /\ (f.sop = g.sop \/ f.name = g.name)) => f = g

\* C21 witness: with the cache not in use a job has fetched an instance
\* whose file was already staged and has written it to that file.
C21_Witness ==
  /\ ~useCacheFlag
  /\ \E j \in JobIds : \E u \in jobs[j].overwritten :
       /\ u \in jobs[j].retrieved
       /\ \E f \in files :
            /\ f = [folder |-> jobs[j].downloadFolderPath,
                    name |-> FileName(jobs[j].downloadFolderPath, u).name,
                    sop |-> u]
            /\ Cardinality(FilesIn(files, f.folder)) = 1

\* The jobs an activation has queued.
JobsOf(frame) ==
  {frame.firstJob + k : k \in 1..Len(frame.allSelectedSeriesUIDs)}

\* The job was downloaded and imported without a Cancel click, a failing
\* request, a failing import or an exception.
CleanJob(j) ==
  /\ jobs[j].status = "done"
  /\ jobs[j].imported
  /\ ~jobs[j].cancelClicked
  /\ ~jobs[j].serverFailed
  /\ ~jobs[j].importFailed
  /\ ~jobs[j].raised

\* C22: when the handler of a Load click with one series selected ends and
\* the job of the series was downloaded and imported without cancellation
\* or failure, the handler has loaded that series into the scene exactly
\* once; and a series is loaded only by a handler whose drain has returned,
\* when none of its jobs is queued or active any more.
C22_LoadedOnceAfterDrain ==
  [][/\ (/\ stack # <<>>
         /\ Len(stack') < Len(stack)
         /\ Top.loadToScene
         /\ Len(Top.allSelectedSeriesUIDs) = 1
         /\ CleanJob(Top.firstJob + 1)) =>
           /\ Top.loads = 1
           /\ \E i \in 1..Len(scene) :
                scene[i] = Top.allSelectedSeriesUIDs[1]
     /\ scene' # scene =>
           /\ Running("pump758")
           /\ \A j \in JobsOf(Top) :
                jobs[j].status \in {"done", "failed", "cancelled", "removed"}]_vars

\* C22 witness: the load loop of a Load click with one series selected is
\* over; the series was downloaded, imported and then loaded.
C22_Witness ==
  /\ Running("loadLoop")
  /\ Len(Top.allSelectedSeriesUIDs) = 1
  /\ Top.seriesIndex = 1
  /\ Top.loads = 1
  /\ CleanJob(Top.firstJob + 1)
  /\ jobs[Top.firstJob + 1].written # {}
  /\ scene = Top.allSelectedSeriesUIDs

\* The job has ended: completed, failed or abandoned on cancel.
Ended(j) == jobs[j].status \in {"done", "failed", "cancelled"}

\* C23: in the step in which a drain starts a job, the job is the one that
\* was appended first among the queued ones and no server request has been
\* issued for it or for any other queued job; the job this drain started
\* before it was appended earlier and has ended, and if it completed, its
\* import was invoked and its staging folder and files are gone.
C23_FifoOneAfterTheOther ==
  [][(/\ Running("while")
      /\ Len(stack') = Len(stack)
      /\ stack'[Len(stack)].pc = "pump799") =>
        LET started == stack'[Len(stack)].queuedItem
            previous == Top.queuedItem
        IN /\ jobs[started].status = "queued"
           /\ jobs'[started].status = "active"
           /\ \A i \in 1..Len(downloadQueue) :
                /\ started <= downloadQueue[i]
                /\ ~jobs[downloadQueue[i]].searched
                /\ jobs[downloadQueue[i]].retrieved = {}
           /\ previous # 0 =>
                /\ previous < started
                /\ Ended(previous)
                /\ jobs[previous].status = "done" =>
                     /\ jobs[previous].imported
                     /\ jobs[previous].downloadFolderPath \notin dirs
                     /\ FilesIn(files, jobs[previous].downloadFolderPath) = {}]_vars

\* C23 witness: a drain has started its second job after the first one,
\* queued by the same click, was downloaded, imported and cleaned up.
C23_Witness ==
  /\ Running("pump799")
  /\ Top.queuedItem = 2
  /\ Top.drained = {1, 2}
  /\ Top.firstJob = 0
  /\ jobs[1].status = "done"
  /\ jobs[1].written # {}

\* C24: a step that removes files from the staging folder of a job is the
\* import step of a job of that folder, and when the indexer has not
\* failed the database then holds the instance of every file removed (the
\* import had the files before they were deleted); a step that removes a
\* staging folder leaves no file of it behind.
C24_CleanupAfterImport ==
  [][\A j \in JobIds :
       LET folder == jobs[j].downloadFolderPath
           removed == FilesIn(files, folder) \ files'
       IN /\ removed # {} =>
               /\ Running("pump860")
               /\ jobs[Top.queuedItem].downloadFolderPath = folder
               /\ ~jobs[Top.queuedItem].imported
               /\ jobs'[Top.queuedItem].imported
               /\ ~jobs'[Top.queuedItem].importFailed =>
                    {f.sop : f \in removed} \subseteq database'
          /\ (folder \in dirs /\ folder \notin dirs') =>
               /\ FilesIn(files', folder) = {}
               /\ jobs'[Top.queuedItem].imported]_vars

\* C24 witness: a job that wrote two files has completed: the instances are
\* in the database, the files and the folder are gone.
C24_Witness ==
  \E j \in JobIds :
    /\ JustEnded(j)
    /\ CleanJob(j)
    /\ Cardinality(jobs[j].written) = 2
    /\ jobs[j].written \subseteq database
    /\ FilesIn(files, jobs[j].downloadFolderPath) = {}
    /\ jobs[j].downloadFolderPath \notin dirs

\* C25: the step in which a retrieve_instance call of a job raises ends the
\* job as failed and removes nothing from the disk; from then on no server
\* request is issued for the job: the instance is not asked for again and
\* the remaining ones are not asked for.
C25_NoRequestAfterFailedRetrieve ==
  [][\A j \in JobIds :
       /\ (~jobs[j].retrieveFailed /\ jobs'[j].retrieveFailed) =>
             /\ jobs'[j].status = "failed"
             /\ files' = files
             /\ dirs' = dirs
       /\ jobs[j].retrieveFailed =>
             /\ jobs'[j].requests = jobs[j].requests
             /\ jobs'[j].retrieved = jobs[j].retrieved
             /\ jobs'[j].status = "failed"]_vars

\* C25 witness: the retrieval of the second instance of a job failed after
\* the first one was staged; the file is on disk, the job has ended and the
\* drain has started the next job.
C25_Witness ==
  \E j \in JobIds :
    /\ jobs[j].retrieveFailed
    /\ jobs[j].processed = 1
    /\ Cardinality(jobs[j].written) = 1
    /\ jobs[j].requests = 3
    /\ \A u \in jobs[j].written :
         \E f \in files : f.folder = jobs[j].downloadFolderPath /\ f.sop = u
    /\ \E k \in JobIds : k # j /\ jobs[k].status = "active" /\ jobs[k].searched

\* C27: while cancelDownloadRequested is set (Cancel was clicked and nothing
\* has been enqueued since) no queued job is started; and a job that was
\* active when Cancel was clicked issues at most one retrieve_instance call
\* after the click, as long as nothing is enqueued.
C27_CancelStopsJobAndDrain ==
  [][/\ cancelDownloadRequested =>
          \A j \in JobIds :
            jobs[j].status = "queued" => jobs'[j].status \in {"queued", "removed"}
     /\ \A j \in JobIds :
          jobs'[j].cancelAt >= 0 => Cardinality(jobs'[j].afterCancel) <= 1]_vars

\* C27 witness: Cancel was clicked in the event pump of the instance loop
\* of a job, the job fetched the instance it was at and stopped with an
\* instance left, and the job queued behind it was removed unstarted.
C27_Witness ==
  /\ cancelDownloadRequested
  /\ \E j, k \in JobIds :
       /\ jobs[j].status = "cancelled"
       /\ jobs[j].cancelAt = 0
       /\ Cardinality(jobs[j].afterCancel) = 1
       /\ jobs[j].processed = 1
       /\ jobs[k].status = "removed"
       /\ ~jobs[k].searched

\* ------------------------------------------------- listing properties, 2
\* The study records a server can answer with.
ServerRecords(srv) ==
  {srv.studies[i] : i \in 1..Len(srv.studies)}
    \cup UNION {{srv.pages[n][i] : i \in 1..Len(srv.pages[n])} :
                  n \in 1..Len(srv.pages)}

\* The pages of the last listing that the paging loop appended: all the
\* pages received but the one it stopped at.
AppendedPages ==
  IF lastListing.error
    THEN lastListing.pages
    ELSE SubSeq(lastListing.pages, 1, Len(lastListing.pages) - 1)

\* C28: whatever the server does with the offset, the paging loop of a
\* study listing comes to an end: every page it appended starts with a
\* record that none of the pages before it holds, and the number of page
\* requests is at most the number of different records the server answers
\* with, plus one.
C28_PagingTerminates ==
  lastListing.op = "studies" =>
    /\ ~lastListing.cutOff
    /\ \A n \in 1..Len(AppendedPages) :
         ~InList(AppendedPages[n][1], RecordsBefore(AppendedPages, n))
    /\ Len(lastListing.requests) <= Cardinality(ServerRecords(server)) + 1

\* C28 witness: a server that never answers with an empty page and does
\* not repeat a page at once; the listing ended at the bound, with as many
\* requests as the server has records, plus one.
C28_Witness ==
  /\ StudiesFetched
  /\ server.kind = "cycle"
  /\ Len(server.pages) = 2
  /\ Len(lastListing.requests) = 3
  /\ Cardinality(ServerRecords(server)) = 2

\* ------------------------------------------------------ enqueue properties
\* C26: every job queued carries as studyInstanceUID the study whose
\* listing put the job's series into the series table.
C26_JobCarriesListingStudy ==
  \A j \in JobIds : jobs[j].studyInstanceUID = jobs[j].listedUnder

====
